---------------------------- MODULE Spec2Model ----------------------------
(***************************************************************************)
(* Model of src/truss.py: class Truss (__init__, calculate_force) together *)
(* with the one piece of process-global state calculate_force touches, the *)
(* warnings filter.                                                        *)
(*                                                                         *)
(* Real numbers are exact rationals [n, d] (d > 0, lowest terms) plus the  *)
(* floating-point value nan.  The joint coordinates are drawn from a set   *)
(* of points whose pairwise distances are integers, so that np.sqrt is     *)
(* exact on every input of the model.                                      *)
(***************************************************************************)
EXTENDS Integers, Sequences, FiniteSets

\* Bounds of the model: sizes of the joint table and of the beam table.
MaxJoints == 3
MaxBeams == 2

VARIABLES
  joints,    \* self.joints: the joint table, one record per row
  beams,     \* self.beams: the beam table, one record per row
  filter,    \* the process-global warnings filter: "default" or "error"
  pc,        \* position of the caller / of calculate_force
  b,         \* number of beam rows already processed by the first loop
  j,         \* number of joint rows already processed by the second loop
  row,       \* local list row
  col,       \* local list col
  data,      \* local list data
  sol,       \* local list sol (right-hand side)
  outcome,   \* how the current call of calculate_force ended
  first      \* how the first call of calculate_force ended

vars == <<joints, beams, filter, pc, b, j, row, col, data, sol, outcome, first>>

----------------------------------------------------------------------------
\* Exact arithmetic standing for float64

RECURSIVE GCD(_, _)
GCD(m, n) == IF n = 0 THEN m ELSE GCD(n, m % n)

Abs(n) == IF n < 0 THEN -n ELSE n

\* the float nan
NaN == [nan |-> TRUE, n |-> 0, d |-> 1]

\* the real number n/d (d # 0), in lowest terms with a positive denominator
Rat(n, d) ==
  LET g == GCD(Abs(n), Abs(d))
      s == IF d < 0 THEN -1 ELSE 1
  IN  [nan |-> FALSE, n |-> (s * n) \div g, d |-> (s * d) \div g]

Zero == Rat(0, 1)
One == Rat(1, 1)

RAdd(p, q) ==
  IF p.nan \/ q.nan THEN NaN ELSE Rat(p.n * q.d + q.n * p.d, p.d * q.d)

RMul(p, q) ==
  IF p.nan \/ q.nan THEN NaN ELSE Rat(p.n * q.n, p.d * q.d)

RNeg(p) == IF p.nan THEN NaN ELSE Rat(-p.n, p.d)

\* p / q in float64: 0/0 is nan (numpy warns "invalid value encountered")
RDiv(p, q) ==
  IF p.nan \/ q.nan \/ q.n = 0 THEN NaN ELSE Rat(p.n * q.d, p.d * q.n)

\* np.sqrt on the squared distances of the model (all perfect squares)
Sqrt(n) == CHOOSE r \in 0..n : r * r = n


----------------------------------------------------------------------------
\* The input tables read by Truss.__init__

\* Bound of the model: number of joints that bear a nonzero external load.
MaxLoaded == 1

\* joint coordinates: the corners of a 3-4-5 right triangle
Points == {<<0, 0>>, <<3, 0>>, <<3, 4>>}

\* external loads (Fx, Fy) of a joint
Loads == {<<0, 0>>, <<-10, 0>>, <<0, -100>>}

\* row i of a joint table: (id, x, y, Fx, Fy, zerodisp); the first joint
\* is placed at the origin
JointRows(i) ==
  { [id |-> i, x |-> p[1], y |-> p[2], fx |-> l[1], fy |-> l[2], sup |-> s] :
      p \in IF i = 1 THEN {<<0, 0>>} ELSE Points, l \in Loads, s \in {0, 1} }

RECURSIVE JointTables(_)
\* joint tables of n rows, the ids being 1..n in row order
JointTables(n) ==
  IF n = 0 THEN {<<>>}
  ELSE { Append(t, r) : t \in JointTables(n - 1), r \in JointRows(n) }

Loaded(t) == { i \in 1..Len(t) : t[i].fx # 0 \/ t[i].fy # 0 }

RECURSIVE BeamTables(_, _)
\* beam tables of m rows over n joints: (id, Ja, Jb), each beam joining two
\* distinct existing joints
BeamTables(n, m) ==
  IF m = 0 THEN {<<>>}
  ELSE { Append(t, [id |-> m, a |-> e[1], c |-> e[2]]) :
           t \in BeamTables(n, m - 1),
           e \in { e \in (1..n) \X (1..n) : e[1] # e[2] } }

\* the (joint table, beam table) pairs the files of the model hold
Trusses(n, m) ==
  { t \in JointTables(n) : Cardinality(Loaded(t)) <= MaxLoaded }
    \X BeamTables(n, m)

NoOutcome == [kind |-> "none", exc |-> "", beamforce |-> <<>>, printed |-> FALSE]

\* calculate_force returned beamforce
Returned(f, p) == [kind |-> "return", exc |-> "", beamforce |-> f, printed |-> p]

\* calculate_force raised an exception to its caller
Raised(e) == [kind |-> "raise", exc |-> e, beamforce |-> <<>>, printed |-> FALSE]

DeterminacyError == "RuntimeError: Truss geometry not suitable for static equilbrium analysis"
EmptyMaxError == "ValueError: max() arg is an empty sequence"
DivideWarning == "RuntimeWarning: invalid value encountered in divide"

\* Truss.__init__: both tables are stored as read, nothing is validated;
\* the process starts with the default warnings filter
Init ==
  /\ \E n \in 1..MaxJoints, m \in 0..MaxBeams :
       \E t \in Trusses(n, m) :
         /\ joints = t[1]
         /\ beams = t[2]
  /\ filter = "default"
  /\ pc = "idle"
  /\ b = 0
  /\ j = 0
  /\ row = <<>>
  /\ col = <<>>
  /\ data = <<>>
  /\ sol = <<>>
  /\ outcome = NoOutcome
  /\ first = NoOutcome

----------------------------------------------------------------------------
\* calculate_force, assembly

RECURSIVE Max(_)
\* Python's max() of a non-empty list
Max(s) ==
  IF Len(s) = 1 THEN s[1]
  ELSE LET m == Max(Tail(s)) IN IF s[1] > m THEN s[1] ELSE m

\* the caller invokes calculate_force: row, col and data start empty
Enter ==
  /\ pc \in {"idle", "done"}
  /\ pc' = "beams"
  /\ b' = 0
  /\ j' = 0
  /\ row' = <<>>
  /\ col' = <<>>
  /\ data' = <<>>
  /\ sol' = <<>>
  /\ outcome' = NoOutcome
  /\ UNCHANGED <<joints, beams, filter, first>>

\* the call ends with outcome o; the outcome of the first call is kept
Finish(o) ==
  /\ pc' = "done"
  /\ outcome' = o
  /\ first' = IF first.kind = "none" THEN o ELSE first

\* the mutant of UnitVector: the direction is taken from p toward q
UnitVectorReversed(p, q) ==
  LET dx == q.x - p.x
      dy == q.y - p.y
      len == Sqrt(dx * dx + dy * dy)
  IN  <<RDiv(Rat(dx, 1), Rat(len, 1)), RDiv(Rat(dy, 1), Rat(len, 1))>>

\* bj1x, bj1y of a beam whose first joint is p and second joint q:
\* (p - q) / |p - q|
UnitVector(p, q) ==
  LET dx == p.x - q.x
      dy == p.y - q.y
      len == Sqrt(dx * dx + dy * dy)
  IN  <<RDiv(Rat(dx, 1), Rat(len, 1)), RDiv(Rat(dy, 1), Rat(len, 1))>>

\* rows of joint number jnum: x equation, y equation
RowX(jnum) == jnum * 2 - 2
RowY(jnum) == jnum * 2 - 1

\* one pass of the loop over the beams: the four coefficients of beam b
BeamStep ==
  /\ pc = "beams"
  /\ b < Len(beams)
  /\ LET j1 == joints[beams[b + 1].a]
         j2 == joints[beams[b + 1].c]
         u1 == UnitVector(j1, j2)
         u2 == UnitVector(j2, j1)
     IN  IF u1[1].nan /\ filter = "error"
         THEN \* the 0/0 warning is raised as an exception
              /\ Finish(Raised(DivideWarning))
              /\ UNCHANGED <<b, row, col, data>>
         ELSE /\ row' = row \o <<RowX(j1.id), RowY(j1.id),
                                 RowX(j2.id), RowY(j2.id)>>
              /\ col' = col \o <<b, b, b, b>>
              /\ data' = data \o <<u1[1], u1[2], u2[1], u2[2]>>
              /\ b' = b + 1
              /\ UNCHANGED <<pc, outcome, first>>
  /\ UNCHANGED <<joints, beams, filter, j, sol>>

\* after the loop over the beams: sol = [0] * (2 * number of joints)
InitSol ==
  /\ pc = "beams"
  /\ b = Len(beams)
  /\ sol' = [i \in 1..(2 * Len(joints)) |-> 0]
  /\ pc' = "joints"
  /\ UNCHANGED <<joints, beams, filter, b, j, row, col, data, outcome, first>>

\* the mutant of SolWithLoad: the loads are stored without the negation
SolWithLoadUnnegated(s, r) ==
  LET sx == IF r.fx # 0 THEN [s EXCEPT ![RowX(r.id) + 1] = r.fx] ELSE s
  IN  IF r.fy # 0 THEN [sx EXCEPT ![RowY(r.id) + 1] = r.fy] ELSE sx

\* sol after the two load assignments of joint row r
SolWithLoad(s, r) ==
  LET sx == IF r.fx # 0 THEN [s EXCEPT ![RowX(r.id) + 1] = -r.fx] ELSE s
  IN  IF r.fy # 0 THEN [sx EXCEPT ![RowY(r.id) + 1] = -r.fy] ELSE sx

\* one pass of the loop over the joints: loads, then the reaction columns
JointStep ==
  /\ pc = "joints"
  /\ j < Len(joints)
  /\ LET r == joints[j + 1]
     IN  /\ sol' = SolWithLoad(sol, r)
         /\ IF r.sup # 1
            THEN UNCHANGED <<row, col, data, pc, outcome, first>> /\ j' = j + 1
            ELSE IF col = <<>>
            THEN \* max(col) of an empty list, after row.append
                 /\ row' = Append(row, RowX(r.id))
                 /\ Finish(Raised(EmptyMaxError))
                 /\ UNCHANGED <<col, data, j>>
            ELSE /\ row' = row \o <<RowX(r.id), RowY(r.id)>>
                 /\ col' = col \o <<Max(col) + 1, Max(col) + 2>>
                 /\ data' = data \o <<One, One>>
                 /\ j' = j + 1
                 /\ UNCHANGED <<pc, outcome, first>>
  /\ UNCHANGED <<joints, beams, filter, b>>

\* the mutant of NotDeterminate: only the overdetermined side is tested
NotDeterminateOneSided(rw, cl) == Max(rw) < Max(cl)

\* the test guarding the raise: max(row) against max(col)
NotDeterminate(rw, cl) == Max(rw) > Max(cl) \/ Max(rw) < Max(cl)

\* after the loop over the joints: raise the determinacy error or go on to
\* the solve
CheckDeterminacy ==
  /\ pc = "joints"
  /\ j = Len(joints)
  /\ IF row = <<>>
     THEN Finish(Raised(EmptyMaxError))
     ELSE IF NotDeterminate(row, col)
     THEN Finish(Raised(DeterminacyError))
     ELSE pc' = "solve" /\ UNCHANGED <<outcome, first>>
  /\ UNCHANGED <<joints, beams, filter, b, j, row, col, data, sol>>

----------------------------------------------------------------------------
\* calculate_force, solve

RECURSIVE Coef(_, _, _, _, _, _)
\* entry (r, c) of csr_matrix((dt, (rw, cl))): the sum of the first k
\* data values filed under (r, c)
Coef(rw, cl, dt, r, c, k) ==
  IF k = 0 THEN Zero
  ELSE IF rw[k] = r /\ cl[k] = c
       THEN RAdd(Coef(rw, cl, dt, r, c, k - 1), dt[k])
       ELSE Coef(rw, cl, dt, r, c, k - 1)

\* the n x n matrix handed to the solver, indexed from 0
Matrix(rw, cl, dt, n) ==
  [rc \in (0..(n - 1)) \X (0..(n - 1)) |->
     Coef(rw, cl, dt, rc[1], rc[2], Len(dt))]

Remove(s, i) == SubSeq(s, 1, i - 1) \o SubSeq(s, i + 1, Len(s))

Sign(k) == IF k % 2 = 0 THEN One ELSE Rat(-1, 1)

RECURSIVE Det(_, _, _), DetTerms(_, _, _, _)
\* determinant of the minor of M on rows rs and columns cs, expanded along
\* the last column
Det(M, rs, cs) ==
  IF cs = <<>> THEN One ELSE DetTerms(M, rs, cs, Len(rs))
DetTerms(M, rs, cs, i) ==
  IF i = 0 THEN Zero
  ELSE LET e == M[<<rs[i], cs[Len(cs)]>>]
           rest == DetTerms(M, rs, cs, i - 1)
       IN  IF e = Zero THEN rest
           ELSE RAdd(rest, RMul(RMul(Sign(i + Len(cs)), e),
                                Det(M, Remove(rs, i),
                                    SubSeq(cs, 1, Len(cs) - 1))))

\* M with column c replaced by the vector v (a sequence of integers)
WithColumn(M, c, v) ==
  [rc \in DOMAIN M |-> IF rc[2] = c THEN Rat(v[rc[1] + 1], 1) ELSE M[rc]]

\* what scipy.sparse.linalg.spsolve(matrix, sol) can do, the warnings filter
\* being "error": "fail" stands for any exception (dimension mismatch,
\* MatrixRankWarning of a singular matrix), otherwise the solution vector
SpSolve(M, n, v) ==
  LET idx == [i \in 1..n |-> i - 1]
      d == Det(M, idx, idx)
  IN  IF Len(v) # n THEN {[ok |-> FALSE, x |-> <<>>]}
      ELSE IF \E rc \in DOMAIN M : M[rc].nan
      THEN {[ok |-> FALSE, x |-> <<>>], [ok |-> TRUE, x |-> [i \in 1..n |-> NaN]]}
      ELSE IF d = Zero THEN {[ok |-> FALSE, x |-> <<>>]}
      ELSE {[ok |-> TRUE,
             x |-> [i \in 1..n |->
                      RDiv(Det(WithColumn(M, i - 1, v), idx, idx), d)]]}

\* the else branch: build the matrix, turn warnings into errors, solve, and
\* return the first len(beams) entries, or print and return [] on any
\* exception
Solve ==
  /\ pc = "solve"
  /\ filter' = "error"
  /\ LET n == Max(col) + 1
         M == Matrix(row, col, data, n)
     IN  \E res \in SpSolve(M, n, sol) :
           IF res.ok
           THEN Finish(Returned(SubSeq(res.x, 1, Len(beams)), FALSE))
           ELSE Finish(Returned(<<>>, TRUE))
  /\ UNCHANGED <<joints, beams, b, j, row, col, data, sol>>

Next ==
  \/ Enter
  \/ BeamStep
  \/ InitSol
  \/ JointStep
  \/ CheckDeterminacy
  \/ Solve

Spec == Init /\ [][Next]_vars

----------------------------------------------------------------------------
\* Vocabulary of the claims

\* the supported joints and the counts R and C of the specification
Supported == { i \in 1..Len(joints) : joints[i].sup = 1 }
RowCount == 2 * Len(joints)
ColCount == Len(beams) + 2 * Cardinality(Supported)

\* beam k joins two joints with identical coordinates
ZeroLength(k) ==
  /\ joints[beams[k].a].x = joints[beams[k].c].x
  /\ joints[beams[k].a].y = joints[beams[k].c].y

\* the call in progress has left the loop over the joints normally
Assembled == pc = "solve" \/ (pc \in {"joints", "done"} /\ j = Len(joints))

\* the sign of an integer and of a real
Sgn(n) == IF n > 0 THEN 1 ELSE IF n < 0 THEN -1 ELSE 0

\* the real v is k / sqrt(q), for integers k and q > 0
IsOverRoot(v, k, q) ==
  /\ ~v.nan
  /\ v.n * v.n * q = k * k * v.d * v.d
  /\ Sgn(v.n) = Sgn(k)

----------------------------------------------------------------------------
\* C1: whenever a truss with at least one beam (none of zero length) has
\* 2 x joints different from beams + 2 x supported joints, calculate_force
\* ends by raising the determinacy RuntimeError and never reaches the solve
\* step.
C1_MismatchRaisesDeterminacy ==
  (/\ Len(beams) >= 1
   /\ \A k \in 1..Len(beams) : ~ZeroLength(k)
   /\ RowCount # ColCount) =>
     /\ pc # "solve"
     /\ pc = "done" => outcome = Raised(DeterminacyError)

\* C2: when the counts match and the solve step fails (the except branch
\* printed its message) on a truss without zero-length beams, the call ends
\* in an exception other than the determinacy error; it does not return
\* normally.
C2_SolveFailureSurfaces ==
  (/\ pc = "done"
   /\ \A k \in 1..Len(beams) : ~ZeroLength(k)
   /\ RowCount = ColCount
   /\ outcome.printed) =>
     /\ outcome.kind = "raise"
     /\ outcome.exc # DeterminacyError

\* C3: an input with a zero-length beam is rejected when the Truss is
\* constructed, so calculate_force never performs the unit-vector division
\* on such a beam (the loop over the beams never gets past it).
C3_ZeroLengthRejected ==
  \A k \in 1..Len(beams) : ZeroLength(k) => b < k

\* Scenario 1: two joints, one horizontal beam between them, joint 1
\* supported, joint 2 unsupported and loaded with (-10, 0)
Scenario1 ==
  /\ Len(joints) = 2
  /\ Len(beams) = 1
  /\ joints[1].y = joints[2].y
  /\ joints[1].x # joints[2].x
  /\ joints[1].sup = 1
  /\ joints[2].sup = 0
  /\ joints[2].fx = -10
  /\ joints[2].fy = 0

\* C4 as stated: in scenario 1 the call returns exactly one beam force, of
\* magnitude 10.
C4_Scenario1Returns10 ==
  (Scenario1 /\ pc = "done") =>
     /\ outcome.kind = "return"
     /\ Len(outcome.beamforce) = 1
     /\ outcome.beamforce[1] \in {Rat(10, 1), Rat(-10, 1)}

\* C4 as amended: in scenario 1 the call never reaches the solve step and
\* ends by raising the determinacy RuntimeError (4 rows against 3 columns).
C4_Scenario1NotDeterminate ==
  Scenario1 =>
     /\ pc # "solve"
     /\ pc = "done" => outcome = Raised(DeterminacyError)

\* C4, witness: a call on scenario 1 has ended in the determinacy error,
\* the largest row index being 3 and the largest column index 2.
C4_Witness ==
  Scenario1 /\ pc = "done" /\ outcome = Raised(DeterminacyError)
     /\ Max(row) = 3 /\ Max(col) = 2

\* C5: whenever the call returns normally on a truss without zero-length
\* beams, the returned sequence has one entry per beam, and entry i is
\* unknown i of the solution of the assembled system.
C5_ReturnsOneForcePerBeam ==
  (/\ pc = "done"
   /\ outcome.kind = "return"
   /\ \A k \in 1..Len(beams) : ~ZeroLength(k)) =>
     /\ Len(outcome.beamforce) = Len(beams)
     /\ \E res \in SpSolve(Matrix(row, col, data, Max(col) + 1),
                           Max(col) + 1, sol) :
          res.ok /\ \A i \in 1..Len(beams) : outcome.beamforce[i] = res.x[i]

\* C6: positive means tension: the two coefficients written for a beam at
\* its first endpoint point from that endpoint toward the other endpoint.
C6_PositiveIsTension ==
  \A k \in 1..b : ~ZeroLength(k) =>
     /\ Sgn(data[4 * k - 3].n)
          = Sgn(joints[beams[k].c].x - joints[beams[k].a].x)
     /\ Sgn(data[4 * k - 2].n)
          = Sgn(joints[beams[k].c].y - joints[beams[k].a].y)

\* C7: every call of calculate_force on a truss ends as the first call on
\* it did.
C7_SameOutcomeEveryCall ==
  pc = "done" => outcome = first

\* C8: beam i has column i; the s-th supported joint of the joint table
\* gets the two columns B + 2(s-1) and B + 2(s-1) + 1, each holding the
\* single coefficient 1 in that joint's x row and y row; the assembly of a
\* truss never stops at a supported joint, and ends with B + 2S columns.
C8_ColumnLayout ==
  LET B == Len(beams)
      rank(i) == Cardinality({ s \in Supported : s <= i })
  IN  /\ \A k \in 1..b : \A e \in (4 * k - 3)..(4 * k) : col[e] = k - 1
      /\ \A i \in Supported : i <= j =>
           LET e == 4 * B + 2 * rank(i) - 1
           IN  /\ Len(col) >= e + 1
               /\ col[e] = B + 2 * (rank(i) - 1)
               /\ col[e + 1] = B + 2 * (rank(i) - 1) + 1
               /\ row[e] = RowX(joints[i].id)
               /\ row[e + 1] = RowY(joints[i].id)
               /\ data[e] = One
               /\ data[e + 1] = One
      /\ \A i \in Supported : (pc = "done" /\ i = j + 1) =>
           outcome # Raised(EmptyMaxError)
      /\ Assembled => Len(col) = 4 * B + 2 * Cardinality(Supported)

\* C9: once the loop over the joints has run through joint row i, the
\* right-hand side has 2N entries and its entries in the rows of that joint
\* are the negated external loads of the joint.
C9_RightHandSide ==
  (pc \in {"joints", "solve", "done"} /\ sol # <<>>) =>
     /\ Len(sol) = 2 * Len(joints)
     /\ \A i \in 1..j :
          /\ sol[2 * (joints[i].id - 1) + 1] = -joints[i].fx
          /\ sol[2 * (joints[i].id - 1) + 2] = -joints[i].fy

\* C9, witness: a two-beam truss reaches the solve step with a loaded
\* supported joint (entry 100 for the load -100) and an unsupported joint
\* whose y entry is 0.
C9_Witness ==
  /\ pc = "solve"
  /\ Len(beams) = 2
  /\ \E i \in Supported : joints[i].fy = -100 /\ sol[2 * i] = 100
  /\ \E i \in 1..Len(joints) : i \notin Supported /\ sol[2 * i] = 0

\* C10: a processed beam k joining joints a and c of different positions
\* owns exactly the four entries 4k-3..4k of the lists, all in column k-1,
\* in the rows 2(a-1), 2(a-1)+1, 2(c-1), 2(c-1)+1; the pair at a is
\* (pos(a) - pos(c)) / |pos(a) - pos(c)|, the pair at c is its negation.
C10_BeamCoefficients ==
  \A k \in 1..b : ~ZeroLength(k) =>
     LET a == beams[k].a
         c == beams[k].c
         dx == joints[a].x - joints[c].x
         dy == joints[a].y - joints[c].y
         e == 4 * k - 3
     IN  /\ \A i \in 1..Len(col) : col[i] = k - 1 <=> i \in e..(e + 3)
         /\ row[e] = 2 * (a - 1) /\ row[e + 1] = 2 * (a - 1) + 1
         /\ row[e + 2] = 2 * (c - 1) /\ row[e + 3] = 2 * (c - 1) + 1
         /\ IsOverRoot(data[e], dx, dx * dx + dy * dy)
         /\ IsOverRoot(data[e + 1], dy, dx * dx + dy * dy)
         /\ data[e + 2] = RNeg(data[e])
         /\ data[e + 3] = RNeg(data[e + 1])
         /\ RAdd(data[e], data[e + 2]) = Zero
         /\ RAdd(data[e + 1], data[e + 3]) = Zero

\* C10, witness: two beams of nonzero length have been assembled, the first
\* a diagonal listed from its higher-numbered joint, with the coefficients
\* -3/5, -4/5 at that joint and 3/5 at the other.
C10_Witness ==
  /\ pc = "solve"
  /\ b = 2
  /\ \A k \in 1..b : ~ZeroLength(k)
  /\ beams[1].a > beams[1].c
  /\ data[1] = Rat(-3, 5)
  /\ data[2] = Rat(-4, 5)
  /\ data[3] = Rat(3, 5)

=============================================================================
